---- MODULE Spec2Model ----
(***************************************************************************)
(* The upload-event handlers of the repository (the document pipeline      *)
(* Extract -> Analyze -> Persist -> Notify in its six variants), as a      *)
(* state machine over the record store, the pub/sub topic and the          *)
(* second-stage invocation queue.                                          *)
(*                                                                         *)
(* One handler variant is deployed (chosen in Init).  The event runtime    *)
(* invokes it, possibly concurrently, with upload-event batches; each      *)
(* invocation advances one blocking I/O call at a time (storage read,      *)
(* record-store write, publish, invoke), every call either succeeding or   *)
(* raising.  The second stage (document_analyzer) runs once per accepted    *)
(* asynchronous invoke.                                                    *)
(*                                                                         *)
(* SpecText follows the content of one object through the text functions   *)
(* of the deployed handler (decoding, CSV and PDF extraction, language     *)
(* detection, tokenization, word counts), over all contents up to a bound. *)
(***************************************************************************)
EXTENDS Integers, Sequences, FiniteSets, TLC

\* ------------------------------------------------------------------ bounds
\* Largest number of records of one upload-event batch.
MaxBatch == 3
\* Number of handler invocations the runtime starts in SpecConcurrent.
MaxInvocations == 2
\* Total number of upload records the runtime delivers in SpecConcurrent.
MaxConcurrentRecords == 2
\* Largest number of data rows of a CSV object.
MaxRows == 2
\* How far the wall clock advances in SpecConcurrent.
MaxClock == 1
\* Longest content of a .txt object of which every byte string is tried.
MaxBytes == 3
\* Longest content of a .csv object of which every byte string is tried.
MaxCsvBytes == 4
\* Largest number of pages of a PDF.
MaxPages == 2

Invocations == 1..MaxInvocations

\* ------------------------------------------------------- handler variants
APP == "serverless-doc-analytics/app.py"
PROCESSOR == "serverless-doc-analytics/document_processor/app.py"
EXTRACTOR == "serverless-doc-analytics/document_extractor/app.py"
EXTRACTOR_V1 == "document_extractor/app.py"
WORD_ANALYSIS_A == "a/deploy.py:lambda_word_analysis"
WORD_ANALYSIS == "deploy.py:lambda_word_analysis"

Handlers == {APP, PROCESSOR, EXTRACTOR, EXTRACTOR_V1, WORD_ANALYSIS_A, WORD_ANALYSIS}

\* Handlers that read only event['Records'][0].
FirstRecordOnly == {APP, EXTRACTOR, EXTRACTOR_V1}
\* Handlers that loop `for record in event.get('Records', [])`.
Looping == {PROCESSOR, WORD_ANALYSIS_A, WORD_ANALYSIS}
\* The embedded lambda_word_analysis handlers of the two deploy scripts.
WordAnalysis == {WORD_ANALYSIS_A, WORD_ANALYSIS}
\* Handlers whose fourth stage is a per-record sns.publish.
PerRecordPublish == {APP, PROCESSOR}
\* Handlers whose last step is the asynchronous lambda_client.invoke.
TwoStage == {EXTRACTOR, EXTRACTOR_V1}

\* ---------------------------------------------------------------- strings
\* A Python str is a sequence of one-character strings.
Uppercase ==
    <<"A", "B", "C", "D", "E", "F", "G", "H", "I", "J", "K", "L", "M",
      "N", "O", "P", "Q", "R", "S", "T", "U", "V", "W", "X", "Y", "Z">>
Lowercase ==
    <<"a", "b", "c", "d", "e", "f", "g", "h", "i", "j", "k", "l", "m",
      "n", "o", "p", "q", "r", "s", "t", "u", "v", "w", "x", "y", "z">>

Lower(c) ==
    IF \E k \in DOMAIN Uppercase : Uppercase[k] = c
    THEN Lowercase[CHOOSE k \in DOMAIN Uppercase : Uppercase[k] = c]
    ELSE c

\* str.lower()
StrLower(s) == [k \in 1..Len(s) |-> Lower(s[k])]

\* str.endswith(suffix)
EndsWith(s, suffix) ==
    /\ Len(suffix) <= Len(s)
    /\ SubSeq(s, Len(s) - Len(suffix) + 1, Len(s)) = suffix

\* s has prefix p
StartsWith(s, p) == Len(p) <= Len(s) /\ SubSeq(s, 1, Len(p)) = p

\* `sub in s`: s has sub as a substring.
Contains(s, sub) ==
    \E p \in 1..(Len(s) - Len(sub) + 1) : SubSeq(s, p, p + Len(sub) - 1) = sub

Digit(d) == <<"0", "1", "2", "3", "4", "5", "6", "7", "8", "9">>[d + 1]

RECURSIVE Decimal(_)
\* str(n) of a natural number, as the f-string formats it.
Decimal(n) == IF n < 10 THEN <<Digit(n)>> ELSE Decimal(n \div 10) \o <<Digit(n % 10)>>

PDF == <<".", "p", "d", "f">>
CSV == <<".", "c", "s", "v">>
TXT == <<".", "t", "x", "t">>

\* The branch of the `if key.lower().endswith(...)` chain the handlers take.
FileType(key) ==
    LET k == StrLower(key) IN
    IF EndsWith(k, PDF) THEN "pdf"
    ELSE IF EndsWith(k, CSV) THEN "csv"
    ELSE IF EndsWith(k, TXT) THEN "txt"
    ELSE "other"

\* ----------------------------------------------------------------- inputs
\* The objects upload events name: a storage container and an object key.
Buckets == {"source-1", "source-2"}

ObjectKeys ==
    { <<"a", ".", "t", "x", "t">>,
      <<"r", ".", "C", "S", "V">>,
      <<"d", "/", "p", ".", "p", "d", "f">>,
      <<"x", ".", "b", "i", "n">> }

\* Each run of a deploy script creates its own source bucket (named with the
\* timestamp) and wires it to its own function, but the functions of all runs write
\* to the one table named DYNAMO_TABLE_NAME.  Both containers hold an object named
\* a.txt; the other names are in source-1.
Objects ==
    { o \in [bucket : Buckets, key : ObjectKeys] :
        o.bucket = "source-2" => o.key = <<"a", ".", "t", "x", "t">> }

\* The objects of the bucket one function is triggered by.
SourceObjects == { o \in Objects : o.bucket = "source-1" }

\* Records that are not what the storage service sends: one without the object key
\* (record['s3']['object']['key'] raises KeyError), one without the bucket name.
MalformedRecords ==
    { [bucket |-> "source-1"], [key |-> <<"a", ".", "t", "x", "t">>] }

\* Both the container and the object name can be read from the record.
WellFormed(r) == {"bucket", "key"} \subseteq DOMAIN r

\* Events whose first record is malformed, alone or followed by an upload record.
\* (An event without the 'Records' key is handled by every handler as one with an
\* empty list: KeyError is caught where IndexError is, and event.get('Records', [])
\* gives the empty list; the empty sequence stands for both.)
MalformedEvents ==
    { <<m>> : m \in MalformedRecords }
    \cup { <<m, o>> : m \in MalformedRecords, o \in SourceObjects }

RECURSIVE SeqsUpTo(_, _)
\* All sequences over S of length 0..n.
SeqsUpTo(S, n) ==
    IF n = 0 THEN {<<>>}
    ELSE LET shorter == SeqsUpTo(S, n - 1) IN
         shorter \cup { Append(s, x) : s \in {t \in shorter : Len(t) = n - 1}, x \in S }

\* ------------------------------------------------------------------ state
VARIABLES
    deployment,  \* the deployed handler and its environment variables
    table,       \* the DynamoDB table: a set of items, at most one per id
    uuids,       \* how many uuid.uuid4() values have been generated
    published,   \* messages the broker accepted (sns.publish, ses.send_email), in order
    invoked,     \* payloads of accepted lambda_client.invoke calls, in order
    putLog,      \* history: the successful put_item calls, in order
    pc,          \* per invocation: the call the handler is blocked in
    event,       \* per invocation: event['Records'], a sequence of objects
    idx,         \* per invocation: index of the record being processed
    docId,       \* per invocation: the id of the item being written
    rows,        \* per invocation: number of data rows of the CSV being processed
    row,         \* per invocation: the CSV row being processed (enumerate's i+1)
    summary,     \* per invocation: lambda_word_analysis's `summary` list
    ret,         \* per invocation: how the handler ended (returned value or raised)
    stage,       \* per invocation and record: the record's pipeline stage
    analyzer,    \* per accepted invoke: the run of document_analyzer it started
    clock,       \* the wall clock, in the unit the messages format it to
    object,      \* the object whose content is followed through extraction and analysis
    extraction,  \* what extracting the text of `object` gave
    analysis,    \* what analyzing the extracted text gave
    account,     \* the resources of the AWS account the cleanup script runs against
    cleanup,     \* the cleanup script: the call it is about to make
    calls        \* history: the API calls the cleanup script made, in order

shared == <<deployment, table, uuids, published, invoked, putLog>>
locals == <<pc, event, idx, docId, rows, row, summary, ret, stage>>
\* What the upload handlers' steps leave alone.
teardown == <<account, cleanup, calls>>
others == <<analyzer, clock, object, extraction, analysis, teardown>>
vars == <<deployment, table, uuids, published, invoked, putLog,
          pc, event, idx, docId, rows, row, summary, ret, stage,
          analyzer, clock, object, extraction, analysis,
          account, cleanup, calls>>

Handler == deployment.handler

NoId == <<>>
\* No object is being followed (the pipeline specifications).
NoObject == [key |-> <<>>, bytes |-> <<>>, pages |-> <<>>]
NotExtracted == [outcome |-> "none"]
NotAnalyzed == [outcome |-> "none"]
NotEnded == [outcome |-> "none"]

\* The cleanup script has not been run.
NotStarted == [pc |-> "start", kind |-> "function", todo |-> {}, cur |-> <<>>,
               listed |-> FALSE, parts |-> {}]
Raised == [outcome |-> "raised"]
Returned(value) == [outcome |-> "returned", value |-> value]

\* The terminal state Failed(stage) of a record.
Failed(st) ==
    CASE st = "Extracting" -> "Failed(Extracting)"
      [] st = "Analyzing" -> "Failed(Analyzing)"
      [] st = "Persisting" -> "Failed(Persisting)"
      [] st = "Notifying" -> "Failed(Notifying)"
      [] st = "Invoking" -> "Failed(Invoking)"

\* The record the invocation is processing.
Rec(i) == event[i][idx[i]]

\* Records delivered so far, over all invocations.
RECURSIVE Delivered(_)
Delivered(n) == IF n = 0 THEN 0 ELSE Len(event[n]) + Delivered(n - 1)

Init ==
    /\ deployment \in
         { d \in [handler : Handlers, summary_email : BOOLEAN] :
             d.summary_email => d.handler = WORD_ANALYSIS_A }
    /\ table = {}
    /\ uuids = 0
    /\ published = <<>>
    /\ invoked = <<>>
    /\ putLog = <<>>
    /\ pc = [i \in Invocations |-> "idle"]
    /\ event = [i \in Invocations |-> <<>>]
    /\ idx = [i \in Invocations |-> 0]
    /\ docId = [i \in Invocations |-> NoId]
    /\ rows = [i \in Invocations |-> 0]
    /\ row = [i \in Invocations |-> 0]
    /\ summary = [i \in Invocations |-> <<>>]
    /\ ret = [i \in Invocations |-> NotEnded]
    /\ stage = [i \in Invocations |-> <<>>]
    /\ analyzer = <<>>
    /\ clock = 0
    /\ object = NoObject
    /\ extraction = NotExtracted
    /\ analysis = NotAnalyzed
    /\ account = {}
    /\ cleanup = NotStarted
    /\ calls = <<>>

\* ---------------------------------------------------------------- helpers
\* str(uuid.uuid4()): the n-th identifier generated; distinct calls give distinct values.
Uuid4(n) == <<"u", "u", "i", "d", "-">> \o Decimal(n)

\* The 'id' lambda_word_analysis writes: key, or f'{key}_row{i+1}' for a CSV row.
WordAnalysisId(key, r) ==
    IF r = 0 THEN key ELSE key \o <<"_", "r", "o", "w">> \o Decimal(r)

RECURSIVE LastSlash(_, _)
LastSlash(s, k) == IF k = 0 \/ s[k] = "/" THEN k ELSE LastSlash(s, k - 1)
\* os.path.basename(key)
Basename(key) == SubSeq(key, LastSlash(key, Len(key)) + 1, Len(key))

\* table.put_item(Item=item): creates the item, or replaces the one with the same id.
PutItem(t, item) == {x \in t : x.id # item.id} \cup {item}

\* The Item each handler writes for the record being processed.
Item(i) ==
    IF Handler \in WordAnalysis
    THEN [id |-> docId[i], row_number |-> row[i]]
    ELSE [id |-> docId[i], file_name |-> Rec(i).key]

\* Control after a step: where the handler blocks next, or how it ended.
Goto(i, p) == [pc |-> p, idx |-> idx[i], ret |-> NotEnded]
End(i, r) == [pc |-> "done", idx |-> idx[i], ret |-> r]

\* The handler's normal return value.
Ok200 ==
    [statusCode |-> 200,
     body |-> IF Handler = WORD_ANALYSIS_A THEN "Processing complete and summary sent."
              ELSE "Processing complete."]

\* A looping handler after the body for record idx[i]: the next record, or the
\* code after the loop (sum is lambda_word_analysis's summary list by then).
LoopNext(i, sum) ==
    IF idx[i] < Len(event[i])
    THEN [pc |-> "extract", idx |-> idx[i] + 1, ret |-> NotEnded]
    ELSE IF Handler = PROCESSOR THEN End(i, Returned([status |-> "success"]))
    ELSE IF sum # <<>> THEN Goto(i, "summary")
    ELSE End(i, Returned(Ok200))

\* The record being processed moves to stage st and the handler to ctl.
Advance(i, st, ctl) ==
    /\ pc' = [pc EXCEPT ![i] = ctl.pc]
    /\ idx' = [idx EXCEPT ![i] = ctl.idx]
    /\ ret' = [ret EXCEPT ![i] = ctl.ret]
    /\ stage' = [stage EXCEPT ![i] =
                   [k \in DOMAIN stage[i] |->
                      IF k = idx[i] THEN st
                      ELSE IF k = ctl.idx /\ ctl.pc = "extract" THEN "Extracting"
                      ELSE stage[i][k]]]

\* summary.append(...) for the record being processed.
SummaryEntry(i, result, n) ==
    [rec |-> idx[i], file |-> Rec(i).key, result |-> result, n |-> n]

\* ---------------------------------------------------------------- actions
\* The runtime calls lambda_handler(event, context) with event['Records'] = ev:
\* the handler reads the event.
HandlerEntry(i, ev) ==
    /\ pc[i] = "idle"
    /\   /\ event' = [event EXCEPT ![i] = ev]
         /\ IF ev = <<>>
            THEN \* event['Records'][0] raises IndexError; the loops run zero times
                 /\ pc' = [pc EXCEPT ![i] = "done"]
                 /\ idx' = idx
                 /\ stage' = stage
                 /\ ret' = [ret EXCEPT ![i] =
                      IF Handler = APP
                      THEN Returned([status |-> "error", reason |-> "Invalid event structure"])
                      ELSE IF Handler \in TwoStage
                      THEN Returned([status |-> "error", message |-> "Invalid S3 event data"])
                      ELSE IF Handler = PROCESSOR THEN Returned([status |-> "success"])
                      ELSE Returned(Ok200)]
            ELSE IF ~WellFormed(ev[1])
            THEN \* record['s3']['bucket']['name'] / ['object']['key'] raises KeyError:
                 \* caught with the error return where the event is read in a try,
                 \* leaving lambda_handler from the loops
                 /\ pc' = [pc EXCEPT ![i] = "done"]
                 /\ idx' = idx
                 /\ stage' = [stage EXCEPT ![i] = [k \in 1..Len(ev) |-> "Received"]]
                 /\ ret' = [ret EXCEPT ![i] =
                      IF Handler = APP
                      THEN Returned([status |-> "error", reason |-> "Invalid event structure"])
                      ELSE IF Handler \in TwoStage
                      THEN Returned([status |-> "error", message |-> "Invalid S3 event data"])
                      ELSE Raised]
            ELSE /\ pc' = [pc EXCEPT ![i] = "extract"]
                 /\ idx' = [idx EXCEPT ![i] = 1]
                 /\ stage' = [stage EXCEPT ![i] =
                      [k \in 1..Len(ev) |-> IF k = 1 THEN "Extracting" ELSE "Received"]]
                 /\ ret' = ret
    /\ UNCHANGED <<others, shared, docId, rows, row, summary>>

\* s3.get_object, Body.read and the decoding or parsing of the content.
\* ok: whether the call succeeded; n: the data rows of a CSV object.
Extract(i) ==
    /\ pc[i] = "extract"
    /\ \E ok \in BOOLEAN, n \in 0..MaxRows :
         LET type == FileType(Rec(i).key) IN
         /\ n > 0 => ok /\ Handler \in WordAnalysis /\ type = "csv"
         /\ IF ~ok
            THEN IF Handler \in WordAnalysis
                 THEN \* except Exception as e: summary.append("File: key - Failed: e")
                      LET sum == Append(summary[i], SummaryEntry(i, "failed", 0)) IN
                      /\ summary' = [summary EXCEPT ![i] = sum]
                      /\ Advance(i, Failed("Extracting"), LoopNext(i, sum))
                      /\ UNCHANGED <<uuids, docId, rows, row>>
                 ELSE \* the exception leaves lambda_handler
                      /\ Advance(i, Failed("Extracting"), End(i, Raised))
                      /\ UNCHANGED <<uuids, docId, rows, row, summary>>
            ELSE IF Handler \in TwoStage
                 THEN \* document_id = str(uuid.uuid4()); no analysis in this stage
                      /\ uuids' = uuids + 1
                      /\ docId' = [docId EXCEPT ![i] = Uuid4(uuids + 1)]
                      /\ Advance(i, "Persisting", Goto(i, "persist"))
                      /\ UNCHANGED <<rows, row, summary>>
                 ELSE IF Handler \in WordAnalysis /\ (type = "other" \/ (type = "csv" /\ n = 0))
                 THEN \* nothing to write: "Skipped unsupported file type.", or no rows
                      LET sum == Append(summary[i],
                                   SummaryEntry(i, IF type = "other" THEN "skipped" ELSE "rows", 0)) IN
                      /\ summary' = [summary EXCEPT ![i] = sum]
                      /\ Advance(i, "Done", LoopNext(i, sum))
                      /\ UNCHANGED <<uuids, docId, rows, row>>
                 ELSE /\ rows' = [rows EXCEPT ![i] = n]
                      /\ row' = [row EXCEPT ![i] = IF n > 0 THEN 1 ELSE 0]
                      /\ Advance(i, "Analyzing", Goto(i, "analyze"))
                      /\ UNCHANGED <<uuids, docId, summary>>
    /\ UNCHANGED <<others, deployment, table, published, invoked, putLog, event>>

\* analyze_text (it catches the detector's exceptions: it never raises), then the
\* id of the item to write.
Analyze(i) ==
    /\ pc[i] = "analyze"
    /\ IF Handler \in WordAnalysis
       THEN /\ docId' = [docId EXCEPT ![i] = WordAnalysisId(Rec(i).key, row[i])]
            /\ uuids' = uuids
       ELSE /\ docId' = [docId EXCEPT ![i] = Uuid4(uuids + 1)]
            /\ uuids' = uuids + 1
    /\ Advance(i, "Persisting", Goto(i, "persist"))
    /\ UNCHANGED <<others, deployment, table, published, invoked, putLog, event, rows, row, summary>>

\* A put_item that raised, handled as a handler that swallows the error would.
OnPutItemErrorSwallowed(i) ==
    /\ Advance(i, IF Handler \in PerRecordPublish THEN "Notifying" ELSE "Invoking",
               Goto(i, IF Handler \in PerRecordPublish THEN "notify"
                       ELSE IF Handler \in TwoStage THEN "invoke" ELSE "summary"))
    /\ UNCHANGED summary

\* table.put_item raised: lambda_word_analysis's `except Exception` turns it into a
\* summary line, document_extractor returns an error status, and in the other
\* handlers the exception leaves lambda_handler.
OnPutItemError(i) ==
    IF Handler \in WordAnalysis
    THEN LET sum == Append(summary[i], SummaryEntry(i, "failed", 0)) IN
         /\ summary' = [summary EXCEPT ![i] = sum]
         /\ Advance(i, Failed("Persisting"), LoopNext(i, sum))
    ELSE IF Handler = EXTRACTOR
    THEN /\ Advance(i, Failed("Persisting"),
                    End(i, Returned([status |-> "error",
                                     message |-> "Failed to persist document"])))
         /\ UNCHANGED summary
    ELSE /\ Advance(i, Failed("Persisting"), End(i, Raised))
         /\ UNCHANGED summary

\* table.put_item(Item=...).
Persist(i) ==
    /\ pc[i] = "persist"
    /\ \E ok \in BOOLEAN :
         IF ok
         THEN /\ table' = PutItem(table, Item(i))
              /\ putLog' = Append(putLog, [inv |-> i, rec |-> idx[i], item |-> Item(i)])
              /\ IF Handler \in PerRecordPublish
                 THEN /\ Advance(i, "Notifying", Goto(i, "notify"))
                      /\ UNCHANGED <<row, summary>>
                 ELSE IF Handler \in TwoStage
                 THEN /\ Advance(i, "Invoking", Goto(i, "invoke"))
                      /\ UNCHANGED <<row, summary>>
                 ELSE IF row[i] < rows[i]
                 THEN \* the next row of the csv.DictReader
                      /\ row' = [row EXCEPT ![i] = row[i] + 1]
                      /\ Advance(i, "Analyzing", Goto(i, "analyze"))
                      /\ UNCHANGED summary
                 ELSE LET sum == Append(summary[i],
                                   SummaryEntry(i, IF rows[i] > 0 THEN "rows" ELSE "analysis",
                                                IF rows[i] > 0 THEN rows[i] ELSE 1)) IN
                      /\ summary' = [summary EXCEPT ![i] = sum]
                      /\ Advance(i, "Done", LoopNext(i, sum))
                      /\ row' = row
         ELSE /\ UNCHANGED <<table, putLog, row>>
              /\ OnPutItemError(i)
    /\ UNCHANGED <<others, deployment, uuids, published, invoked, event, docId, rows>>

\* sns.publish of the per-record report (app.py, document_processor).
Notify(i) ==
    /\ pc[i] = "notify"
    /\ \E ok \in BOOLEAN :
         IF ok
         THEN /\ published' = Append(published,
                   [inv |-> i, channel |-> "sns", time |-> clock,
                    subject |-> [text |-> "Document Processed: ",
                                 name |-> IF Handler = APP THEN Basename(Rec(i).key)
                                          ELSE Rec(i).key],
                    body |-> << [rec |-> idx[i], file |-> Rec(i).key,
                                 document_id |-> IF Handler = APP THEN docId[i] ELSE NoId] >>])
              /\ IF Handler = APP
                 THEN Advance(i, "Done",
                              End(i, Returned([status |-> "success", file |-> Rec(i).key,
                                               document_id |-> docId[i]])))
                 ELSE Advance(i, "Done", LoopNext(i, summary[i]))
         ELSE \* the exception leaves lambda_handler
              /\ published' = published
              /\ Advance(i, Failed("Notifying"), End(i, Raised))
    /\ UNCHANGED <<others, deployment, table, uuids, invoked, putLog, event, docId, rows, row, summary>>

\* lambda_client.invoke(InvocationType='Event') of the analyzer (the two extractors).
InvokeAnalyzer(i) ==
    /\ pc[i] = "invoke"
    /\ \E ok \in BOOLEAN :
         IF ok
         THEN /\ invoked' = Append(invoked,
                   IF Handler = EXTRACTOR
                   THEN [inv |-> i, payload |-> [document_id |-> docId[i]]]
                   ELSE [inv |-> i, payload |-> [source_event |-> "document_extraction_complete"]])
              /\ Advance(i, "Done",
                         End(i, Returned([status |-> "success", document_id |-> docId[i],
                                          analysis_triggered |-> TRUE])))
         ELSE /\ invoked' = invoked
              /\ IF Handler = EXTRACTOR
                 THEN \* except Exception: persisted but failed to trigger analyzer
                      Advance(i, "Done",
                              End(i, Returned([status |-> "success", document_id |-> docId[i],
                                               analysis_triggered |-> FALSE,
                                               message |-> "Persisted but failed to trigger analyzer"])))
                 ELSE Advance(i, Failed("Invoking"), End(i, Raised))
    /\ UNCHANGED <<others, deployment, table, uuids, published, putLog, event, docId, rows, row, summary>>

\* The message of lambda_word_analysis's batch summary.
SummaryMessage(i, channel) ==
    [inv |-> i, channel |-> channel,
     subject |-> [text |-> "File Analysis Summary", files |-> Len(event[i])],
     body |-> summary[i]]

\* `if summary: sns.publish(...)` after the loop of lambda_word_analysis.
PublishSummary(i) ==
    /\ pc[i] = "summary"
    /\ \E ok \in BOOLEAN :
         IF ok
         THEN /\ published' = Append(published, SummaryMessage(i, "sns"))
              /\ pc' = [pc EXCEPT ![i] = IF deployment.summary_email THEN "email" ELSE "done"]
              /\ ret' = [ret EXCEPT ![i] =
                           IF deployment.summary_email THEN NotEnded ELSE Returned(Ok200)]
         ELSE /\ published' = published
              /\ pc' = [pc EXCEPT ![i] = "done"]
              /\ ret' = [ret EXCEPT ![i] = Raised]
    /\ UNCHANGED <<others, deployment, table, uuids, invoked, putLog,
                   event, idx, docId, rows, row, summary, stage>>

\* `if SUMMARY_EMAIL: ses.send_email(...)` (a/deploy.py only).
SendSummaryEmail(i) ==
    /\ pc[i] = "email"
    /\ \E ok \in BOOLEAN :
         /\ published' = IF ok THEN Append(published, SummaryMessage(i, "ses")) ELSE published
         /\ pc' = [pc EXCEPT ![i] = "done"]
         /\ ret' = [ret EXCEPT ![i] = IF ok THEN Returned(Ok200) ELSE Raised]
    /\ UNCHANGED <<others, deployment, table, uuids, invoked, putLog,
                   event, idx, docId, rows, row, summary, stage>>

\* document_analyzer, started by the accepted invoke m: it reads the event and the
\* table (get_item of the document_id the payload carries, else a scan of the table).
AnalyzerRead(m) ==
    /\ m \in DOMAIN invoked \ DOMAIN analyzer
    /\ \E ok \in BOOLEAN :
         LET payload == invoked[m].payload
             document_id == IF "document_id" \in DOMAIN payload
                            THEN payload.document_id ELSE NoId
             items == IF document_id # NoId
                      THEN {x \in table : x.id = document_id}
                      ELSE table
         IN analyzer' = analyzer @@
              (m :> IF ok
                    THEN [pc |-> "publish", items |-> {x.id : x \in items}, ret |-> NotEnded]
                    ELSE [pc |-> "done", items |-> {},
                          ret |-> Returned([status |-> "error",
                                            message |-> "Failed to read from DynamoDB"])])
    /\ UNCHANGED <<deployment, table, uuids, published, invoked, putLog, locals, teardown,
                   clock, object, extraction, analysis>>

\* perform_analysis(items) and sns.publish of the report.
AnalyzerPublish(m) ==
    /\ m \in DOMAIN analyzer
    /\ analyzer[m].pc = "publish"
    /\ \E ok \in BOOLEAN :
         /\ published' =
              IF ok
              THEN Append(published,
                     [inv |-> 0, channel |-> "sns", time |-> clock,
                      subject |-> [text |-> "Document Analytics Report"],
                      body |-> <<>>,
                      documents |-> analyzer[m].items])
              ELSE published
         /\ analyzer' = [analyzer EXCEPT ![m] =
              [pc |-> "done", items |-> analyzer[m].items,
               ret |-> IF ok
                       THEN Returned([status |-> "report_sent",
                                      total_docs |-> Cardinality(analyzer[m].items)])
                       ELSE Returned([status |-> "error",
                                      message |-> "Failed to publish SNS message"])]]
    /\ UNCHANGED <<deployment, table, uuids, invoked, putLog, locals, teardown,
                   clock, object, extraction, analysis>>

\* The second stage, run by the runtime for the queued asynchronous invocations.
RunAnalyzer == \E m \in DOMAIN invoked : AnalyzerRead(m) \/ AnalyzerPublish(m)

\* Time passes (datetime.utcnow() gives a later value).
Tick ==
    /\ clock < MaxClock
    /\ clock' = clock + 1
    /\ UNCHANGED <<deployment, table, uuids, published, invoked, putLog, locals, teardown,
                   analyzer, object, extraction, analysis>>

\* What an invocation does once started.
Step(i) ==
    \/ Extract(i)
    \/ Analyze(i)
    \/ Persist(i)
    \/ Notify(i)
    \/ InvokeAnalyzer(i)
    \/ PublishSummary(i)
    \/ SendSummaryEmail(i)

\* The runtime invokes the handler once, with a batch of upload records.
Deliver(i) ==
    /\ pc[i] = "idle"
    /\ \E ev \in SeqsUpTo(SourceObjects, MaxBatch) \cup MalformedEvents : HandlerEntry(i, ev)

\* The runtime invokes the handler again while earlier invocations may still run
\* (or after they ended: a redelivery, a re-upload).
DeliverConcurrently(i) ==
    /\ pc[i] = "idle"
    /\ i > 1 => pc[i - 1] # "idle"
    /\ \E ev \in SeqsUpTo(Objects, MaxConcurrentRecords - Delivered(MaxInvocations)) :
         HandlerEntry(i, ev)

\* One invocation over one batch.
Next == Deliver(1) \/ Step(1) \/ RunAnalyzer

\* Several invocations, interleaved call by call.
NextConcurrent ==
    \/ \E i \in Invocations : DeliverConcurrently(i) \/ Step(i)
    \/ RunAnalyzer
    \/ Tick

Spec == Init /\ [][Next]_vars

SpecConcurrent == Init /\ [][NextConcurrent]_vars

\* ------------------------------------------------- text: bytes and strings
\* A byte string is a sequence whose elements are ASCII characters (one-character
\* strings) or InvalidByte, a byte that is not valid UTF-8 where it stands.
InvalidByte == "0xFF"

Digits == {"0", "1", "2", "3", "4", "5", "6", "7", "8", "9"}
Letters == {Uppercase[k] : k \in DOMAIN Uppercase} \cup {Lowercase[k] : k \in DOMAIN Lowercase}

\* What the regular expression class \w matches.
IsWordChar(c) == c \in Letters \cup Digits \cup {"_"}

\* What str.split() and str.strip() treat as white space.
IsSpace(c) == c \in {" ", "\n", "\t"}

\* bytes.decode('utf-8', errors='ignore'): the invalid bytes are dropped.
DecodeIgnore(bytes) == SelectSeq(bytes, LAMBDA b : b # InvalidByte)

\* bytes.decode('utf-8') raises UnicodeDecodeError on an invalid byte.
StrictDecodeRaises(bytes) == \E k \in DOMAIN bytes : bytes[k] = InvalidByte

RECURSIVE Join(_, _)
\* sep.join(parts)
Join(parts, sep) ==
    IF parts = <<>> THEN <<>>
    ELSE IF Len(parts) = 1 THEN parts[1]
    ELSE parts[1] \o sep \o Join(Tail(parts), sep)

RECURSIVE Split(_, _, _)
\* s.split(sep) for a one-character sep, cur being the field read so far.
Split(s, sep, cur) ==
    IF s = <<>> THEN <<cur>>
    ELSE IF Head(s) = sep THEN <<cur>> \o Split(Tail(s), sep, <<>>)
    ELSE Split(Tail(s), sep, Append(cur, Head(s)))

\* The lines io.StringIO(s) gives to csv.reader: a final newline ends the last line.
Lines(s) ==
    IF s = <<>> THEN <<>>
    ELSE LET parts == Split(s, "\n", <<>>) IN
         IF s[Len(s)] = "\n" THEN SubSeq(parts, 1, Len(parts) - 1) ELSE parts

\* len(text.splitlines())
TotalLines(text) == Len(Lines(text))

\* list(csv.reader(io.StringIO(s))): one row per line, an empty list for a blank line.
CsvReader(s) ==
    LET lines == Lines(s) IN
    [k \in DOMAIN lines |-> IF lines[k] = <<>> THEN <<>> ELSE Split(lines[k], ",", <<>>)]

\* text.strip()
Strip(text) ==
    IF \A k \in DOMAIN text : IsSpace(text[k]) THEN <<>>
    ELSE LET first == CHOOSE k \in DOMAIN text :
                        ~IsSpace(text[k]) /\ \A j \in 1..(k - 1) : IsSpace(text[j])
             last == CHOOSE k \in DOMAIN text :
                        ~IsSpace(text[k]) /\ \A j \in (k + 1)..Len(text) : IsSpace(text[j])
         IN SubSeq(text, first, last)

RECURSIVE FindWords(_, _)
\* re.findall(r'\b\w+\b', s): the maximal runs of word characters, cur being the
\* run read so far.
FindWords(s, cur) ==
    IF s = <<>> THEN (IF cur = <<>> THEN <<>> ELSE <<cur>>)
    ELSE IF IsWordChar(Head(s)) THEN FindWords(Tail(s), Append(cur, Head(s)))
    ELSE (IF cur = <<>> THEN <<>> ELSE <<cur>>) \o FindWords(Tail(s), <<>>)

\* How many "w" follow position p of s.
RECURSIVE RunOfW(_, _)
RunOfW(s, p) == IF p <= Len(s) /\ s[p] = "w" THEN 1 + RunOfW(s, p + 1) ELSE 0

\* Where a match of the pattern \\b\\w+\\b (a backslash, b, a backslash, one or more
\* w, a backslash, b) that starts at p ends; 0 when none starts there.
LiteralMatchEnd(s, p) ==
    LET n == RunOfW(s, p + 3) IN
    IF /\ p + 4 + n <= Len(s)
       /\ n >= 1
       /\ s[p] = "\\" /\ s[p + 1] = "b" /\ s[p + 2] = "\\"
       /\ s[p + 3 + n] = "\\" /\ s[p + 4 + n] = "b"
    THEN p + 4 + n
    ELSE 0

RECURSIVE FindLiteral(_, _)
\* re.findall(r'\\b\\w+\\b', s), from position p on: what the pattern of the
\* function deploy.py writes matches.
FindLiteral(s, p) ==
    IF p > Len(s) THEN <<>>
    ELSE LET e == LiteralMatchEnd(s, p) IN
         IF e = 0 THEN FindLiteral(s, p + 1)
         ELSE <<SubSeq(s, p, e)>> \o FindLiteral(s, e + 1)

RECURSIVE FirstSeen(_, _)
\* The keys of Counter(words), in insertion order: each word where it first occurs.
FirstSeen(words, seen) ==
    IF words = <<>> THEN seen
    ELSE IF \E k \in DOMAIN seen : seen[k] = Head(words) THEN FirstSeen(Tail(words), seen)
    ELSE FirstSeen(Tail(words), Append(seen, Head(words)))

\* Counter(words)[w]
Count(words, w) == Cardinality({k \in DOMAIN words : words[k] = w})

RECURSIVE SortedByCount(_, _, _)
\* sorted(counter.items(), key=count, reverse=True): a stable sort, an entry going
\* behind the entries that count at least as much.
SortedByCount(words, keys, sorted) ==
    IF keys = <<>> THEN sorted
    ELSE LET c == Count(words, Head(keys))
             n == Cardinality({j \in DOMAIN sorted : sorted[j].count >= c})
         IN SortedByCount(words, Tail(keys),
                SubSeq(sorted, 1, n) \o <<[word |-> Head(keys), count |-> c]>>
                    \o SubSeq(sorted, n + 1, Len(sorted)))

\* The first k keys in insertion order, with their counts.
MostCommonUnsorted(words, k) ==
    LET keys == FirstSeen(words, <<>>) IN
    [j \in 1..(IF Len(keys) < k THEN Len(keys) ELSE k) |->
        [word |-> keys[j], count |-> Count(words, keys[j])]]

\* Counter(words).most_common(k)
MostCommon(words, k) ==
    LET all == SortedByCount(words, FirstSeen(words, <<>>), <<>>) IN
    SubSeq(all, 1, IF Len(all) < k THEN Len(all) ELSE k)

\* len(text.split()): the maximal runs of characters that are not white space.
RECURSIVE SplitCount(_, _)
SplitCount(text, inWord) ==
    IF text = <<>> THEN 0
    ELSE IF IsSpace(Head(text)) THEN SplitCount(Tail(text), FALSE)
    ELSE (IF inWord THEN 0 ELSE 1) + SplitCount(Tail(text), TRUE)

\* ------------------------------------------- text: extraction and analysis
\* The text extract_text of app.py returns for an object of no supported type.
UnsupportedSentinel == <<"(", "U", "n", "s", "u", "p", "p", "o", "r", "t", "e", "d", " ", "f", "i", "l", "e", " ", "t", "y", "p", "e", ")">>

\* most_common(10) of app.py and document_analyzer, most_common(5) of
\* lambda_word_analysis.
TopWordsReport == 10
TopWordsAnalysis == 5

Extracted(texts) == [outcome |-> "text", texts |-> texts]
ExtractRaised(error, texts) == [outcome |-> "raised", error |-> error, texts |-> texts]
ExtractSkipped == [outcome |-> "skipped", texts |-> <<>>]

\* " ".join(" ".join(row) for row in csv.reader(...))
FlattenCsv(str) ==
    LET all == CsvReader(str) IN
    Join([k \in DOMAIN all |-> Join(all[k], <<" ">>)], <<" ">>)

\* A PDF extraction that fails for a page without text.
ExtractPdfStrict(h, pages) ==
    IF \E k \in DOMAIN pages : pages[k] = <<>>
    THEN ExtractRaised("TypeError", <<>>)
    ELSE Extracted(<<Join(pages, <<" ">>)>>)

\* The extraction of a PDF whose pages give the texts `pages`
\* (page.extract_text() returns a str, empty for a page without text):
\* " ".join(page.extract_text() or "" ...), or text += page.extract_text() + "\n".
ExtractPdf(h, pages) ==
    IF h \in WordAnalysis
    THEN Extracted(<<Join([k \in DOMAIN pages |-> pages[k] \o <<"\n">>], <<>>)>>)
    ELSE Extracted(<<Join(pages, <<" ">>)>>)

\* list(dict(zip(fieldnames, row)).values()) for a row as long as the header: one
\* value per distinct field name, the last one given for that name.
DictValues(header, r) ==
    LET names == FirstSeen(header, <<>>) IN
    [n \in DOMAIN names |->
        r[CHOOSE j \in DOMAIN header :
            header[j] = names[n] /\ \A l \in (j + 1)..Len(header) : header[l] # names[n]]]

\* The CSV branch of lambda_word_analysis: a strict decode, the sniffed dialect
\* (a/deploy.py), csv.DictReader, and one text per data row.  A row shorter or
\* longer than the header has a None or a list among its values, and ' '.join
\* raises TypeError.
WordAnalysisCsv(h, bytes, sniffed) ==
    IF StrictDecodeRaises(bytes) THEN ExtractRaised("UnicodeDecodeError", <<>>)
    ELSE IF h = WORD_ANALYSIS_A /\ sniffed = "raise" THEN ExtractRaised("csv.Error", <<>>)
    ELSE LET all == CsvReader(bytes)
             header == IF all = <<>> THEN <<>> ELSE all[1]
             data == IF all = <<>> THEN <<>> ELSE SelectSeq(Tail(all), LAMBDA r : r # <<>>)
             bad == {k \in DOMAIN data : Len(data[k]) # Len(header)}
             good == IF bad = {} THEN Len(data)
                     ELSE (CHOOSE k \in bad : \A j \in bad : k <= j) - 1
             texts == [k \in 1..good |-> Join(DictValues(header, data[k]), <<" ">>)]
         IN IF bad = {} THEN Extracted(texts) ELSE ExtractRaised("TypeError", texts)

\* What csv.Sniffer().sniff can give (a/deploy.py): the delimiter, or csv.Error
\* "Could not determine delimiter" (always so without a comma in the content).
SniffOutcomes(h, key, bytes) ==
    IF h = WORD_ANALYSIS_A /\ FileType(key) = "csv" /\ ~StrictDecodeRaises(bytes)
    THEN {"raise"} \cup (IF \E k \in DOMAIN bytes : bytes[k] = "," THEN {","} ELSE {})
    ELSE {"none"}

\* The texts handler h extracts from the object: extract_text,
\* extract_text_from_file, and the try block of lambda_word_analysis.
ExtractTextOf(h, obj, sniffed) ==
    LET type == FileType(obj.key) IN
    IF type = "pdf" THEN ExtractPdf(h, obj.pages)
    ELSE IF h \in WordAnalysis
    THEN IF type = "csv" THEN WordAnalysisCsv(h, obj.bytes, sniffed)
         ELSE IF type = "txt"
         THEN IF StrictDecodeRaises(obj.bytes) THEN ExtractRaised("UnicodeDecodeError", <<>>)
              ELSE Extracted(<<obj.bytes>>)
         ELSE ExtractSkipped
    ELSE LET text == IF type = "txt" THEN DecodeIgnore(obj.bytes)
                     ELSE IF type = "csv" THEN FlattenCsv(DecodeIgnore(obj.bytes))
                     ELSE IF h = APP THEN UnsupportedSentinel
                     ELSE <<>>
         IN Extracted(<<IF h = PROCESSOR THEN Strip(text) ELSE text>>)

Languages == {"en", "id"}

\* What langdetect's detect(text) can do: give a language code, or raise
\* LangDetectException (always so for a text without a letter: "No features in text").
DetectOutcomes(text) ==
    {"raise"} \cup (IF \E k \in DOMAIN text : text[k] \in Letters THEN Languages ELSE {})

\* The language of the guarded detect call, det being what detect does when called.
DetectLanguageRaising(h, text, det) ==
    IF det = "raise" THEN "LangDetectException" ELSE det

\* The `try: language = detect(text) ... except Exception: language = "unknown"` of
\* analyze_text and perform_analysis, det being what detect does when called.
DetectLanguage(h, text, det) ==
    IF h = PROCESSOR /\ text = <<>> THEN "unknown"
    ELSE IF h \in TwoStage /\ Strip(text) = <<>> THEN "unknown"
    ELSE IF det = "raise" THEN "unknown"
    ELSE det

\* re.findall(pattern, text.lower()) with the pattern of the handler.
Words(h, text) ==
    IF h = WORD_ANALYSIS THEN FindLiteral(StrLower(text), 1)
    ELSE FindWords(StrLower(text), <<>>)

\* analyze_text(text) of handler h (perform_analysis of document_analyzer for the
\* two extractors, whose item the analyzer reads).
AnalyzeTextOf(h, text, det) ==
    IF h \in WordAnalysis
    THEN LET words == Words(h, text) IN
         [total_words |-> Len(words),
          unique_words |-> Cardinality({words[k] : k \in DOMAIN words}),
          top_words |-> MostCommon(words, TopWordsAnalysis),
          total_lines |-> TotalLines(text)]
    ELSE IF h = PROCESSOR
    THEN [language |-> DetectLanguage(h, text, det), word_count |-> SplitCount(text, FALSE)]
    ELSE [language |-> DetectLanguage(h, text, det),
          top_words |-> MostCommon(Words(h, text), TopWordsReport)]

\* ------------------------------------------------- text: the specification
\* The bytes the enumerated .txt and .csv contents are made of.
TextAlphabet == {"a", "A", "b", " ", "\n", InvalidByte}
CsvAlphabet == {"a", "b", ",", "\n", InvalidByte}

\* Longer contents: "Word word WORD", "the cat sat on the mat the cat ran", a text
\* of 11 distinct words, and one with the characters \b\ww\b in it.
TextExamples ==
    { <<"W", "o", "r", "d", " ", "w", "o", "r", "d", " ", "W", "O", "R", "D">>,
      <<"t", "h", "e", " ", "c", "a", "t", " ", "s", "a", "t", " ", "o", "n", " ", "t",
         "h", "e", " ", "m", "a", "t", " ", "t", "h", "e", " ", "c", "a", "t", " ", "r",
         "a", "n">>,
      <<"a", " ", "b", " ", "c", " ", "d", " ", "e", " ", "f", " ", "g", " ", "h", " ",
         "i", " ", "j", " ", "k", " ", "a">>,
      <<"\\", "b", "\\", "w", "w", "\\", "b", " ", "a", " ", "\\", "b", "\\", "w", "\\",
         "b">> }

\* "a,b\nc", a header with two full rows, and a one-column file.
CsvExamples ==
    { <<"a", ",", "b", "\n", "c">>,
      <<"a", ",", "b", "\n", "b", ",", "a", "\n", "a", ",", "a">>,
      <<"a", "\n", "b", "\n", "a">> }

\* What page.extract_text() gives for a page.
PageTexts == { <<>>, <<"a">>, <<"b", " ", "a">> }

\* The contents tried for an object named key.
BodiesOf(key) ==
    LET type == FileType(key) IN
    IF type = "pdf"
    THEN { [key |-> key, bytes |-> <<>>, pages |-> ps] : ps \in SeqsUpTo(PageTexts, MaxPages) }
    ELSE { [key |-> key, bytes |-> b, pages |-> <<>>] :
             b \in IF type = "txt" THEN SeqsUpTo(TextAlphabet, MaxBytes) \cup TextExamples
                   ELSE IF type = "csv" THEN SeqsUpTo(CsvAlphabet, MaxCsvBytes) \cup CsvExamples
                   ELSE SeqsUpTo({"a", InvalidByte}, 1) }

TextObjects == UNION { BodiesOf(key) : key \in ObjectKeys }

\* One object, read successfully, in the hands of the deployed handler.
InitText ==
    /\ deployment \in [handler : Handlers, summary_email : {FALSE}]
    /\ table = {}
    /\ uuids = 0
    /\ published = <<>>
    /\ invoked = <<>>
    /\ putLog = <<>>
    /\ pc = [i \in Invocations |-> "idle"]
    /\ event = [i \in Invocations |-> <<>>]
    /\ idx = [i \in Invocations |-> 0]
    /\ docId = [i \in Invocations |-> NoId]
    /\ rows = [i \in Invocations |-> 0]
    /\ row = [i \in Invocations |-> 0]
    /\ summary = [i \in Invocations |-> <<>>]
    /\ ret = [i \in Invocations |-> NotEnded]
    /\ stage = [i \in Invocations |-> <<>>]
    /\ analyzer = <<>>
    /\ clock = 0
    /\ object \in TextObjects
    /\ extraction = NotExtracted
    /\ analysis = NotAnalyzed
    /\ account = {}
    /\ cleanup = NotStarted
    /\ calls = <<>>

\* The handler extracts the text of the object.
ExtractText ==
    /\ object # NoObject
    /\ extraction = NotExtracted
    /\ \E sniffed \in SniffOutcomes(Handler, object.key, object.bytes) :
         extraction' = ExtractTextOf(Handler, object, sniffed)
    /\ UNCHANGED <<deployment, table, uuids, published, invoked, putLog, locals, teardown,
                   analyzer, clock, object, analysis>>

\* The handler (the analyzer, for the two extractors) analyzes each extracted text.
AnalyzeText ==
    /\ extraction.outcome = "text"
    /\ analysis = NotAnalyzed
    /\ \E det \in IF Handler \in WordAnalysis \/ extraction.texts = <<>>
                  THEN {"none"}
                  ELSE DetectOutcomes(extraction.texts[1]) :
         LET results == [k \in DOMAIN extraction.texts |->
                            AnalyzeTextOf(Handler, extraction.texts[k], det)]
             raised == /\ Handler \notin WordAnalysis
                       /\ \E k \in DOMAIN results :
                            results[k].language = "LangDetectException"
         IN analysis' = [outcome |-> IF raised THEN "raised" ELSE "analyzed",
                         detector |-> det, results |-> results]
    /\ UNCHANGED <<deployment, table, uuids, published, invoked, putLog, locals, teardown,
                   analyzer, clock, object, extraction>>

NextText == ExtractText \/ AnalyzeText

SpecText == InitText /\ [][NextText]_vars

\* ------------------------------------------------- the cleanup script (a/cleanup.py)
\* The script runs top to bottom, one blocking API call at a time, against the
\* resources of the account.  No other actor changes the account while it runs.

\* BASE_NAME = "word-analysis"
BASE_NAME == <<"w", "o", "r", "d", "-", "a", "n", "a", "l", "y", "s", "i", "s">>

\* timedelta(hours=24): cutoff = now - CutoffHours; times are hours before `now`.
CutoffHours == 24

\* How many resources the account holds when the script starts.
MaxResources == 2

\* The order of the script's five loops.
Kinds == <<"function", "role", "bucket", "topic", "table">>

\* Names the deploy script builds from the base name, and names of other projects.
Named(suffix) == BASE_NAME \o suffix
Unrelated(suffix) == <<"o", "t", "h", "e", "r">> \o suffix

\* arn:aws:sns:<region>:<account>:<topic name>
TopicArn(name) ==
    <<"a", "r", "n", ":", "a", "w", "s", ":", "s", "n", "s", ":",
      "u", "s", "-", "e", "a", "s", "t", "-", "1", ":", "1", ":">> \o name

\* What a resource holds that is torn down before it: a role's inline and attached
\* policies, a bucket's object versions and delete markers, a topic's subscriptions
\* (confirmed, or with SubscriptionArn 'PendingConfirmation').
Part(type, id) == [type |-> type, id |-> id]
NoPart == Part("none", 0)

\* A resource: created and modified are hours before the script starts.
Resource(kind, name, created, modified, parts) ==
    [kind |-> kind, name |-> name, created |-> created, modified |-> modified,
     parts |-> parts]

\* The resources an account may hold: for each kind one of the project created in
\* the last day, one of the project created earlier, one of another project; and a
\* function created earlier whose code was updated in the last day.
Resources ==
    { Resource("function", Named(<<"-", "f", "n">>), 1, 1, {}),
      Resource("function", Named(<<"-", "f", "n", "-", "o", "l", "d">>), 30, 30, {}),
      Resource("function", Named(<<"-", "f", "n", "-", "u", "p", "d">>), 30, 1, {}),
      Resource("function", Unrelated(<<"-", "f", "n">>), 1, 1, {}),
      Resource("role", Named(<<"-", "r", "o", "l", "e">>), 1, 1,
               {Part("inline", 1), Part("attached", 2)}),
      Resource("role", Named(<<"-", "r", "o", "l", "e", "-", "o", "l", "d">>), 30, 30,
               {Part("inline", 1)}),
      Resource("role", Unrelated(<<"-", "r", "o", "l", "e">>), 1, 1,
               {Part("attached", 2)}),
      Resource("bucket", Named(<<"-", "s", "r", "c">>), 1, 1,
               {Part("version", 1), Part("marker", 2)}),
      Resource("bucket", Named(<<"-", "s", "r", "c", "-", "o", "l", "d">>), 30, 30,
               {Part("version", 1)}),
      Resource("bucket", Unrelated(<<"-", "s", "r", "c">>), 1, 1, {}),
      Resource("topic", TopicArn(Named(<<"-", "s", "n", "s">>)), 1, 1,
               {Part("confirmed", 1), Part("pending", 2)}),
      Resource("topic", TopicArn(Named(<<"-", "s", "n", "s", "-", "o", "l", "d">>)), 30, 30,
               {Part("confirmed", 1)}),
      Resource("topic", TopicArn(Unrelated(<<"-", "s", "n", "s">>)), 1, 1, {}),
      Resource("table", Named(<<"-", "d", "y", "n", "a", "m", "o">>), 1, 1, {}),
      Resource("table", Named(<<"-", "d", "b", "-", "o", "l", "d">>), 30, 30, {}),
      Resource("table", Unrelated(<<"-", "d", "b">>), 1, 1, {}) }

\* The accounts the script is run against.
Accounts == { a \in SUBSET Resources : Cardinality(a) <= MaxResources }

\* The resource of that name as it was when the script started.
ResourceNamed(name) == CHOOSE r \in Resources : r.name = name

\* The resource of that name as it is now.
Current(name) == CHOOSE r \in account : r.name = name

\* created >= cutoff
SinceCutoff(hours) == hours <= CutoffHours

\* The condition under which each loop tears a listed resource down.  The function
\* loop compares fn['LastModified'], the topic loop compares nothing; the table loop
\* compares the creation time only after describe_table.
Qualifies(r) ==
    CASE r.kind = "function" -> SinceCutoff(r.modified) /\ Contains(r.name, BASE_NAME)
      [] r.kind \in {"role", "bucket"} ->
             SinceCutoff(r.created) /\ Contains(r.name, BASE_NAME)
      [] r.kind \in {"topic", "table"} -> Contains(r.name, BASE_NAME)

\* A script that deletes roles, buckets and topics outright, for comparison.
AfterSelectDeleteFirst(kind) == IF kind = "table" THEN "describe" ELSE "delete"

\* Where the teardown of a resource of that kind starts.
AfterSelect(kind) ==
    CASE kind = "function" -> "delete"
      [] kind = "role" -> "inline"
      [] kind = "bucket" -> "versions"
      [] kind = "topic" -> "subscriptions"
      [] kind = "table" -> "describe"

\* The part types each listing call returns.
Listed(p) ==
    CASE p = "inline" -> {"inline"}
      [] p = "attached" -> {"attached"}
      [] p = "versions" -> {"version", "marker"}
      [] p = "subscriptions" -> {"confirmed", "pending"}

\* The listing call made at each position.
ListCall(p) ==
    CASE p = "inline" -> "list_role_policies"
      [] p = "attached" -> "list_attached_role_policies"
      [] p = "versions" -> "list_object_versions"
      [] p = "subscriptions" -> "list_subscriptions_by_topic"

\* One API call of the script, as recorded in `calls`.
Call(op, name, part, ok) == [op |-> op, name |-> name, part |-> part, ok |-> ok]

\* The script moves on: position p, looking at resource cur, with `todo` left.
At(p, todo, cur) ==
    [pc |-> p, kind |-> cleanup.kind, todo |-> todo, cur |-> cur,
     listed |-> FALSE, parts |-> {}]

\* An exception leaves the script: nothing after the failing statement runs.
Aborted == [cleanup EXCEPT !.pc = "aborted"]

\* The resource is gone from the account.
Without(name) == { r \in account : r.name # name }

\* The resource no longer holds that part.
WithoutPart(name, part) ==
    { IF r.name = name THEN [r EXCEPT !.parts = @ \ {part}] ELSE r : r \in account }

\* What the cleanup script leaves alone.
pipeline == <<shared, locals, analyzer, clock, object, extraction, analysis>>

\* The listing call each loop iterates over.
ListOp(kind) ==
    CASE kind = "function" -> "list_functions"
      [] kind = "role" -> "list_roles"
      [] kind = "bucket" -> "list_buckets"
      [] kind = "topic" -> "list_topics"
      [] kind = "table" -> "list_tables"

\* The loop after the loop over that kind.
NextKind(kind) ==
    CASE kind = "function" -> "role"
      [] kind = "role" -> "bucket"
      [] kind = "bucket" -> "topic"
      [] kind = "topic" -> "table"

\* The script is run against an account; the handlers are not running.
InitCleanup ==
    /\ deployment = [handler |-> WORD_ANALYSIS_A, summary_email |-> FALSE]
    /\ table = {}
    /\ uuids = 0
    /\ published = <<>>
    /\ invoked = <<>>
    /\ putLog = <<>>
    /\ pc = [i \in Invocations |-> "idle"]
    /\ event = [i \in Invocations |-> <<>>]
    /\ idx = [i \in Invocations |-> 0]
    /\ docId = [i \in Invocations |-> NoId]
    /\ rows = [i \in Invocations |-> 0]
    /\ row = [i \in Invocations |-> 0]
    /\ summary = [i \in Invocations |-> <<>>]
    /\ ret = [i \in Invocations |-> NotEnded]
    /\ stage = [i \in Invocations |-> <<>>]
    /\ analyzer = <<>>
    /\ clock = 0
    /\ object = NoObject
    /\ extraction = NotExtracted
    /\ analysis = NotAnalyzed
    /\ account \in Accounts
    /\ cleanup = NotStarted
    /\ calls = <<>>

\* cutoff = datetime.now(timezone.utc) - timedelta(hours=24); the first loop begins.
Start ==
    /\ cleanup.pc = "start"
    /\ cleanup' = [cleanup EXCEPT !.pc = "list", !.kind = Kinds[1]]
    /\ UNCHANGED <<account, calls, pipeline>>

\* list_functions / list_roles / list_buckets / list_topics / list_tables.
ListResources ==
    /\ cleanup.pc = "list"
    /\ \E ok \in BOOLEAN :
         /\ calls' = Append(calls, Call(ListOp(cleanup.kind), <<>>, NoPart, ok))
         /\ cleanup' =
              IF ok
              THEN At("loop", { r.name : r \in { x \in account : x.kind = cleanup.kind } },
                      <<>>)
              ELSE Aborted
    /\ UNCHANGED <<account, pipeline>>

\* The loop takes the next listed resource and tests the loop's condition on it.
Select ==
    /\ cleanup.pc = "loop"
    /\ \E n \in cleanup.todo :
         cleanup' = IF Qualifies(Current(n))
                    THEN At(AfterSelect(cleanup.kind), cleanup.todo \ {n}, n)
                    ELSE At("loop", cleanup.todo \ {n}, <<>>)
    /\ UNCHANGED <<account, calls, pipeline>>

\* The loop is over: the next loop begins, or the script prints CLEANUP COMPLETE.
EndOfLoop ==
    /\ cleanup.pc = "loop"
    /\ cleanup.todo = {}
    /\ cleanup' = IF cleanup.kind = "table"
                  THEN At("complete", {}, <<>>)
                  ELSE [At("list", {}, <<>>) EXCEPT !.kind = NextKind(cleanup.kind)]
    /\ UNCHANGED <<account, calls, pipeline>>

\* list_role_policies / list_attached_role_policies / list_object_versions /
\* list_subscriptions_by_topic of the resource being torn down.
ListParts ==
    /\ cleanup.pc \in {"inline", "attached", "versions", "subscriptions"}
    /\ ~cleanup.listed
    /\ \E ok \in BOOLEAN :
         /\ calls' = Append(calls, Call(ListCall(cleanup.pc), cleanup.cur, NoPart, ok))
         /\ cleanup' =
              IF ok
              THEN [cleanup EXCEPT
                      !.listed = TRUE,
                      !.parts = { p \in Current(cleanup.cur).parts :
                                    p.type \in Listed(cleanup.pc) }]
              ELSE Aborted
    /\ UNCHANGED <<account, pipeline>>

\* One turn of an inner loop over the listed parts: the call `op` on the next part,
\* or the end of the loop.  A subscription pending confirmation is passed over.  A
\* failing call leaves the script unless the loop catches it (`caught`).
TearDown(position, op, next, caught) ==
    /\ cleanup.pc = position
    /\ cleanup.listed
    /\ IF cleanup.parts = {}
       THEN /\ cleanup' = At(next, cleanup.todo, cleanup.cur)
            /\ UNCHANGED <<account, calls>>
       ELSE \E p \in cleanup.parts :
              IF p.type = "pending"
              THEN /\ cleanup' = [cleanup EXCEPT !.parts = @ \ {p}]
                   /\ UNCHANGED <<account, calls>>
              ELSE \E ok \in BOOLEAN :
                     /\ calls' = Append(calls, Call(op, cleanup.cur, p, ok))
                     /\ account' = IF ok THEN WithoutPart(cleanup.cur, p) ELSE account
                     /\ cleanup' = IF ok \/ caught
                                   THEN [cleanup EXCEPT !.parts = @ \ {p}]
                                   ELSE Aborted
    /\ UNCHANGED pipeline

DeleteRolePolicy == TearDown("inline", "delete_role_policy", "attached", FALSE)

DetachRolePolicy == TearDown("attached", "detach_role_policy", "delete", FALSE)

DeleteObject == TearDown("versions", "delete_object", "delete", FALSE)

Unsubscribe == TearDown("subscriptions", "unsubscribe", "delete", TRUE)

\* The call that deletes the resource itself.
Delete(kind, op, caught) ==
    /\ cleanup.pc = "delete"
    /\ cleanup.kind = kind
    /\ \E ok \in BOOLEAN :
         /\ calls' = Append(calls, Call(op, cleanup.cur, NoPart, ok))
         /\ account' = IF ok THEN Without(cleanup.cur) ELSE account
         /\ cleanup' = IF ok \/ caught THEN At("loop", cleanup.todo, <<>>) ELSE Aborted
    /\ UNCHANGED pipeline

DeleteFunction == Delete("function", "delete_function", FALSE)

DeleteRole == Delete("role", "delete_role", FALSE)

DeleteBucket == Delete("bucket", "delete_bucket", FALSE)

DeleteTopic == Delete("topic", "delete_topic", TRUE)

\* describe_table, then the comparison of CreationDateTime with the cutoff.
DescribeTable ==
    /\ cleanup.pc = "describe"
    /\ \E ok \in BOOLEAN :
         /\ calls' = Append(calls, Call("describe_table", cleanup.cur, NoPart, ok))
         /\ cleanup' =
              IF ~ok THEN Aborted
              ELSE IF SinceCutoff(Current(cleanup.cur).created)
              THEN At("delete", cleanup.todo, cleanup.cur)
              ELSE At("loop", cleanup.todo, <<>>)
    /\ UNCHANGED <<account, pipeline>>

\* delete_table: the table starts being deleted.
DeleteTable ==
    /\ cleanup.pc = "delete"
    /\ cleanup.kind = "table"
    /\ \E ok \in BOOLEAN :
         /\ calls' = Append(calls, Call("delete_table", cleanup.cur, NoPart, ok))
         /\ cleanup' = IF ok THEN At("wait", cleanup.todo, cleanup.cur) ELSE Aborted
    /\ UNCHANGED <<account, pipeline>>

\* waiter.wait: returns once the table is gone, raises when it gives up.
WaitTableNotExists ==
    /\ cleanup.pc = "wait"
    /\ \E ok \in BOOLEAN :
         /\ calls' = Append(calls, Call("wait_table_not_exists", cleanup.cur, NoPart, ok))
         /\ account' = IF ok THEN Without(cleanup.cur) ELSE account
         /\ cleanup' = IF ok THEN At("loop", cleanup.todo, <<>>) ELSE Aborted
    /\ UNCHANGED pipeline

NextCleanup ==
    \/ Start
    \/ ListResources
    \/ Select
    \/ EndOfLoop
    \/ ListParts
    \/ DeleteRolePolicy
    \/ DetachRolePolicy
    \/ DeleteObject
    \/ Unsubscribe
    \/ DeleteFunction
    \/ DeleteRole
    \/ DeleteBucket
    \/ DeleteTopic
    \/ DescribeTable
    \/ DeleteTable
    \/ WaitTableNotExists

SpecCleanup == InitCleanup /\ [][NextCleanup]_vars

\* ----------------------------------------------------------- observations
Ended(i) == pc[i] = "done"

TerminalStages ==
    {"Done", "Failed(Extracting)", "Failed(Analyzing)", "Failed(Persisting)",
     "Failed(Notifying)", "Failed(Invoking)"}

FailedStages == TerminalStages \ {"Done"}

\* The successful put_item calls made for record k of invocation i.
PutsOf(i, k) == { p \in DOMAIN putLog : putLog[p].inv = i /\ putLog[p].rec = k }

\* The accepted messages of invocation i that report on its record k.
MessagesOf(i, k) ==
    { m \in DOMAIN published :
        /\ published[m].inv = i
        /\ \E b \in DOMAIN published[m].body : published[m].body[b].rec = k }

\* The handler told its caller that it failed: it raised, or returned an error status.
ReportsFailure(r) ==
    \/ r.outcome = "raised"
    \/ /\ r.outcome = "returned"
       /\ "status" \in DOMAIN r.value
       /\ r.value.status = "error"

\* ----------------------------------------------------------------- claims

\* C1: batch isolation.  When a handler that loops over the batch has ended and
\* the only failures were storage reads, every record of the batch was processed
\* to the end: a failed read of one record did not keep the later ones from being
\* extracted, analyzed, persisted and notified.
C1_BatchIsolation ==
    \A i \in Invocations :
        ( /\ Handler \in Looping
          /\ Ended(i)
          /\ \A k \in DOMAIN stage[i] :
                stage[i][k] \in FailedStages => stage[i][k] = "Failed(Extracting)" )
        => \A k \in DOMAIN stage[i] : stage[i][k] \in TerminalStages

\* C2: every record of a batch is processed.  When the handler has ended and no
\* stage of any record failed, each of the N records went through the pipeline,
\* and the records were persisted in batch order.
C2_EveryRecordProcessed ==
    \A i \in Invocations :
        (Ended(i) /\ \A k \in DOMAIN stage[i] : stage[i][k] \notin FailedStages)
        => /\ \A k \in DOMAIN stage[i] : stage[i][k] = "Done"
           /\ \A p, q \in DOMAIN putLog :
                (p < q /\ putLog[p].inv = i /\ putLog[q].inv = i)
                => putLog[p].rec <= putLog[q].rec

\* The moves of a record's state machine.
StageMoves ==
    { <<"Received", "Extracting">>, <<"Extracting", "Analyzing">>,
      <<"Analyzing", "Persisting">>, <<"Persisting", "Notifying">>,
      <<"Notifying", "Done">> }
    \cup { <<st, Failed(st)>> : st \in {"Extracting", "Analyzing", "Persisting", "Notifying"} }

\* What C3 asks of a step of app.py and document_processor.
StageOrderStep ==
    Handler \in PerRecordPublish =>
        \A i \in Invocations :
            /\ \A k \in DOMAIN stage'[i] :
                 IF k \in DOMAIN stage[i]
                 THEN \/ stage'[i][k] = stage[i][k]
                      \/ <<stage[i][k], stage'[i][k]>> \in StageMoves
                 ELSE stage'[i][k] \in {"Received", "Extracting"}
            /\ \A p \in DOMAIN putLog' \ DOMAIN putLog :
                 putLog'[p].inv = i => stage[i][putLog'[p].rec] = "Persisting"
            /\ \A m \in DOMAIN published' \ DOMAIN published :
                 published'[m].inv = i =>
                    \A b \in DOMAIN published'[m].body :
                        /\ stage[i][published'[m].body[b].rec] = "Notifying"
                        /\ PutsOf(i, published'[m].body[b].rec) # {}
            /\ \A k \in DOMAIN stage'[i] :
                 /\ Cardinality(PutsOf(i, k)') <= 1
                 /\ Cardinality(MessagesOf(i, k)') <= 1

\* C3: in app.py and document_processor, every step moves a record only along
\* Received -> Extracting -> Analyzing -> Persisting -> Notifying -> Done or from its
\* current stage to Failed(stage); a record is written only from Persisting and
\* reported only from Notifying, after it was written; and no record is written or
\* reported twice.
C3_StageOrder == [][StageOrderStep]_vars

\* C3 witness: a batch of document_processor whose first record went through all
\* four stages and whose second failed in Persisting.
C3_Witness ==
    /\ Handler = PROCESSOR
    /\ Len(stage[1]) = 2
    /\ stage[1][1] = "Done"
    /\ stage[1][2] = "Failed(Persisting)"
    /\ Cardinality(MessagesOf(1, 1)) = 1

\* The object a successful put_item was made for.
ObjectOf(p) == event[putLog[p].inv][putLog[p].rec]

\* C4: for each processed upload record the record store was written exactly once,
\* under an identifier that no other write used and that is not the object name or
\* an extension of it, whatever the file type.
C4_OneFreshRecord ==
    \A i \in Invocations : \A k \in DOMAIN stage[i] :
        stage[i][k] = "Done" =>
            /\ Cardinality(PutsOf(i, k)) = 1
            /\ \A p \in PutsOf(i, k) :
                 /\ ~StartsWith(putLog[p].item.id, event[i][k].key)
                 /\ \A q \in DOMAIN putLog \ {p} : putLog[q].item.id # putLog[p].item.id

\* C5: no deduplication and no overwrite.  Two invocations that processed the same
\* object (a redelivery, a re-upload) and both wrote to the record store wrote under
\* two distinct identifiers, and what each of them wrote is still in the store.
C5_NoDeduplication ==
    \A p, q \in DOMAIN putLog :
        ( /\ p < q
          /\ putLog[p].inv # putLog[q].inv
          /\ ObjectOf(p) = ObjectOf(q) )
        => /\ putLog[p].item.id # putLog[q].item.id
           /\ putLog[p].item \in table
           /\ putLog[q].item \in table

\* C6: invocations that process different objects never write under the same key,
\* in any interleaving: the writes of two invocations for different objects carry
\* different identifiers, and both written records are in the store (none was
\* overwritten or lost).
C6_NoContention ==
    \A p, q \in DOMAIN putLog :
        (putLog[p].inv # putLog[q].inv /\ ObjectOf(p) # ObjectOf(q))
        => /\ putLog[p].item.id # putLog[q].item.id
           /\ putLog[p].item \in table
           /\ putLog[q].item \in table

\* C7: a persistence error is fatal for the record and reported.  When the handler
\* has ended and the write of a record failed, the handler raised or returned an
\* error status, and nothing was published or invoked for that record.
C7_PersistErrorReported ==
    \A i \in Invocations : \A k \in DOMAIN stage[i] :
        (Ended(i) /\ stage[i][k] = "Failed(Persisting)") =>
            /\ ReportsFailure(ret[i])
            /\ MessagesOf(i, k) = {}
            /\ \A m \in DOMAIN invoked : invoked[m].inv # i

\* Which records of invocation i succeeded.
Succeeded(i) == { k \in DOMAIN stage[i] : stage[i][k] = "Done" }

\* C8: per-record errors are caught and the handler's return value tells, for
\* every record, whether it succeeded.  A handler that loops over the batch ends by
\* returning, and two invocations that return the same value for batches of the
\* same length had the same records succeed.
C8_PerRecordStatus ==
    \A i \in Invocations :
        (Handler \in Looping /\ Ended(i) /\ event[i] # <<>>) =>
            /\ ret[i].outcome = "returned"
            /\ \A j \in Invocations :
                 (Ended(j) /\ ret[j] = ret[i] /\ Len(event[j]) = Len(event[i]))
                 => Succeeded(j) = Succeeded(i)

\* C9: notification errors are best-effort.  When the publish for a persisted
\* record failed, the handler still ended by returning, without an error status,
\* with the record in the store and every record of the batch processed.
C9_NotificationBestEffort ==
    \A i \in Invocations : \A k \in DOMAIN stage[i] :
        (Ended(i) /\ stage[i][k] = "Failed(Notifying)") =>
            /\ ret[i].outcome = "returned"
            /\ ~ReportsFailure(ret[i])
            /\ \A p \in PutsOf(i, k) : putLog[p].item \in table
            /\ \A l \in DOMAIN stage[i] : stage[i][l] \in TerminalStages

\* C10: at-most-once notification.  Within one invocation at most one message
\* reports on a record, and none reports on a record that was not persisted.
C10_AtMostOnceNotification ==
    \A i \in Invocations : \A k \in DOMAIN stage[i] :
        /\ Cardinality(MessagesOf(i, k)) <= 1
        /\ MessagesOf(i, k) # {} => PutsOf(i, k) # {}

\* C11: the second-stage invocation is issued only after the document was persisted
\* and its payload carries the identifier generated for that document, so that the
\* analyzer it starts reads exactly that document.
C11_SecondStageInvocation ==
    \A m \in DOMAIN invoked :
        /\ "document_id" \in DOMAIN invoked[m].payload
        /\ \E p \in DOMAIN putLog :
             /\ putLog[p].inv = invoked[m].inv
             /\ putLog[p].item.id = invoked[m].payload.document_id
        /\ (m \in DOMAIN analyzer /\ analyzer[m].pc = "publish")
             => analyzer[m].items = {invoked[m].payload.document_id}

\* The documents a run of the analyzer computed its report from.
Analyzed(m) == IF analyzer[m].pc = "publish" THEN analyzer[m].items ELSE {}

\* C12: an analysis result refers to exactly one document and a document has at
\* most one analysis result.  Every report of the analyzer is computed from one
\* stored document, no document is in two reports, and one upload record yields at
\* most one stored analysis result.
C12_OneAnalysisPerDocument ==
    /\ \A m \in DOMAIN analyzer :
         analyzer[m].pc = "publish" => Cardinality(Analyzed(m)) = 1
    /\ \A m, n \in DOMAIN analyzer :
         m # n => Analyzed(m) \cap Analyzed(n) = {}
    /\ \A i \in Invocations : \A k \in DOMAIN stage[i] :
         Cardinality(PutsOf(i, k)) <= 1

\* C13: language detection never raises.  Once a handler that detects the language
\* has analyzed a text, the analysis did not raise, and for an empty or
\* whitespace-only text, and whenever the detector failed, the language is "unknown".
C13_LanguageUnknown ==
    (Handler \notin WordAnalysis /\ analysis.outcome # "none") =>
        /\ analysis.outcome = "analyzed"
        /\ \A k \in DOMAIN analysis.results :
             (Strip(extraction.texts[k]) = <<>> \/ analysis.detector = "raise")
             => analysis.results[k].language = "unknown"

\* C13 witness: app.py analyzed a text with letters in it on which the detector
\* raised, and the language is "unknown".
C13_Witness ==
    /\ Handler = APP
    /\ analysis.outcome = "analyzed"
    /\ analysis.detector = "raise"
    /\ \E c \in DOMAIN extraction.texts[1] : extraction.texts[1][c] \in Letters
    /\ analysis.results[1].language = "unknown"

\* The maximal runs of alphanumeric/underscore characters of s, as pairs of positions.
WordSpans(s) ==
    { sp \in (DOMAIN s) \X (DOMAIN s) :
        /\ sp[1] <= sp[2]
        /\ \A k \in sp[1]..sp[2] : IsWordChar(s[k])
        /\ sp[1] = 1 \/ ~IsWordChar(s[sp[1] - 1])
        /\ sp[2] = Len(s) \/ ~IsWordChar(s[sp[2] + 1]) }

\* C14: tokenization is case-insensitive and counts every maximal
\* alphanumeric/underscore run.  In every analysis of lambda_word_analysis the total
\* word count is the number of such runs of the text and the unique word count the
\* number of distinct lower-cased runs; "Word word WORD" gives "word" with count 3.
C14_Tokenization ==
    (Handler \in WordAnalysis /\ analysis.outcome = "analyzed") =>
        \A k \in DOMAIN analysis.results :
            LET text == extraction.texts[k]
                spans == WordSpans(text)
                result == analysis.results[k]
            IN /\ result.total_words = Cardinality(spans)
               /\ result.unique_words =
                    Cardinality({ StrLower(SubSeq(text, sp[1], sp[2])) : sp \in spans })
               /\ text = <<"W", "o", "r", "d", " ", "w", "o", "r", "d", " ", "W", "O", "R", "D">>
                    => result.top_words = <<[word |-> <<"w", "o", "r", "d">>, count |-> 3]>>

RECURSIVE AllFields(_)
\* Every field of every row, in order.
AllFields(rs) == IF rs = <<>> THEN <<>> ELSE Head(rs) \o AllFields(Tail(rs))

\* C15: CSV extraction flattens all rows.  For a CSV object of valid bytes whose
\* rows and fields are not empty, extraction gives one text: every field of every
\* row, the first row included, joined by single spaces.
C15_CsvFlatten ==
    LET rs == CsvReader(object.bytes) IN
    ( /\ FileType(object.key) = "csv"
      /\ extraction.outcome # "none"
      /\ ~StrictDecodeRaises(object.bytes)
      /\ rs # <<>>
      /\ \A r \in DOMAIN rs : rs[r] # <<>> /\ \A f \in DOMAIN rs[r] : rs[r][f] # <<>> )
    => /\ extraction.outcome = "text"
       /\ extraction.texts = <<Join(AllFields(rs), <<" ">>)>>

\* The sentinel the specification names, in lower case.
UnsupportedFileType ==
    <<"u", "n", "s", "u", "p", "p", "o", "r", "t", "e", "d", " ",
      "f", "i", "l", "e", " ", "t", "y", "p", "e">>

\* C16: for an object whose extension is not supported, extraction does not raise
\* and does not skip the object (a record is still persisted for the upload): it
\* gives one text, the sentinel "unsupported file type" (in any letter case),
\* never the empty text.
C16_UnsupportedSentinel ==
    (FileType(object.key) = "other" /\ extraction.outcome # "none") =>
        /\ extraction.outcome = "text"
        /\ Len(extraction.texts) = 1
        /\ Contains(StrLower(extraction.texts[1]), UnsupportedFileType)

\* The per-record reports of the handlers, and the reports of the analyzer.
RecordReports ==
    { m \in DOMAIN published :
        published[m].inv \in Invocations /\ Handler \in PerRecordPublish }
AnalyzerReports == { m \in DOMAIN published : published[m].inv = 0 }

\* The object a per-record report is about, and the text of its body.
ReportedObject(m) == event[published[m].inv][published[m].body[1].rec]
ReportBody(m) ==
    [file |-> published[m].body[1].file,
     document_id |-> published[m].body[1].document_id,
     time |-> published[m].time]

\* C17: the notification is a deterministic function of the analysis result and
\* the source name.  Two reports published for the same object carry the same
\* subject and the same body, and so do two reports of the analyzer computed from
\* the same documents.
C17_DeterministicNotification ==
    /\ \A m, n \in RecordReports :
         ReportedObject(m) = ReportedObject(n) =>
            /\ published[m].subject = published[n].subject
            /\ ReportBody(m) = ReportBody(n)
    /\ \A m, n \in AnalyzerReports :
         published[m].documents = published[n].documents =>
            published[m].time = published[n].time

\* Where the token w first occurs among the tokens.
FirstAt(words, w) ==
    CHOOSE p \in DOMAIN words : words[p] = w /\ \A q \in 1..(p - 1) : words[q] # w

\* C18: a top-K word list has at most K entries (10 for the reports, 5 for
\* lambda_word_analysis), as many as there are distinct tokens up to K, each with
\* its count, in descending order of count, entries of equal count in the order
\* their token was first encountered; no token left out counts more than a listed one.
C18_TopWords ==
    (Handler # PROCESSOR /\ analysis.outcome = "analyzed") =>
        \A k \in DOMAIN analysis.results :
            LET top == analysis.results[k].top_words
                words == Words(Handler, extraction.texts[k])
                distinct == { words[p] : p \in DOMAIN words }
                listed == { top[j].word : j \in DOMAIN top }
                K == IF Handler \in WordAnalysis THEN TopWordsAnalysis ELSE TopWordsReport
            IN /\ Len(top) <= K
               /\ Len(top) = Cardinality(listed)
               /\ Len(top) = K \/ listed = distinct
               /\ \A j \in DOMAIN top :
                    /\ top[j].word \in distinct
                    /\ top[j].count = Count(words, top[j].word)
                    /\ \A w \in distinct \ listed : Count(words, w) <= top[j].count
               /\ \A j \in 1..(Len(top) - 1) :
                    \/ top[j].count > top[j + 1].count
                    \/ /\ top[j].count = top[j + 1].count
                       /\ FirstAt(words, top[j].word) < FirstAt(words, top[j + 1].word)

\* C18 witness: lambda_word_analysis of a/deploy.py analyzed a text of more than 5
\* distinct tokens: the list has 5 entries, the third and fourth with equal counts.
C18_Witness ==
    /\ Handler = WORD_ANALYSIS_A
    /\ analysis.outcome = "analyzed"
    /\ Len(analysis.results) = 1
    /\ analysis.results[1].unique_words > TopWordsAnalysis
    /\ Len(analysis.results[1].top_words) = TopWordsAnalysis
    /\ analysis.results[1].top_words[1].count > analysis.results[1].top_words[2].count
    /\ analysis.results[1].top_words[3].count = analysis.results[1].top_words[4].count

\* C19: PDF extraction is per-page best-effort.  Extracting a PDF gives one text
\* whether or not some page has no text, and the words of that text are the words
\* of the pages in order: a page without text adds nothing and fails nothing.
C19_PdfPerPage ==
    (FileType(object.key) = "pdf" /\ extraction.outcome # "none") =>
        /\ extraction.outcome = "text"
        /\ Len(extraction.texts) = 1
        /\ FindWords(extraction.texts[1], <<>>) =
             AllFields([p \in DOMAIN object.pages |-> FindWords(object.pages[p], <<>>)])

\* C19 witness: lambda_word_analysis of a/deploy.py extracted a two-page PDF whose
\* first page has no text and whose second has some.
C19_Witness ==
    /\ Handler = WORD_ANALYSIS_A
    /\ FileType(object.key) = "pdf"
    /\ Len(object.pages) = 2
    /\ object.pages[1] = <<>>
    /\ object.pages[2] # <<>>
    /\ extraction.outcome = "text"
    /\ analysis.outcome = "analyzed"
    /\ analysis.results[1].total_words = 2

\* C20: text decoding is lenient.  Extracting a .txt object never fails, whatever
\* its bytes: it gives one text, the valid characters of the content in order
\* (up to surrounding white space), the invalid bytes dropped.
C20_LenientDecode ==
    (FileType(object.key) = "txt" /\ extraction.outcome # "none") =>
        /\ extraction.outcome = "text"
        /\ Len(extraction.texts) = 1
        /\ Strip(extraction.texts[1]) =
             Strip(SelectSeq(object.bytes, LAMBDA b : b # InvalidByte))

\* The event is malformed: no records, or a first record without the bucket name
\* or the object key.
Malformed(ev) == ev = <<>> \/ ~WellFormed(ev[1])

\* C21: a malformed event makes the handler return an error status without raising
\* and leaves everything unchanged: no record is read, nothing is written,
\* published or invoked by that invocation.
C21_MalformedEvent ==
    \A i \in Invocations :
        (Ended(i) /\ Malformed(event[i])) =>
            /\ ret[i].outcome = "returned"
            /\ ReportsFailure(ret[i])
            /\ \A k \in DOMAIN stage[i] : stage[i][k] = "Received"
            /\ \A p \in DOMAIN putLog : putLog[p].inv # i
            /\ \A m \in DOMAIN published : published[m].inv # i
            /\ \A m \in DOMAIN invoked : invoked[m].inv # i

\* The document of invocation i was persisted: its put_item call succeeded.
Persisted(i) == PutsOf(i, 1) # {}

\* The second-stage invocation call of invocation i succeeded.
Triggered(i) == \E m \in DOMAIN invoked : invoked[m].inv = i

\* C22: in the two-stage extractor the returned status is 'success' exactly when
\* the document was persisted and analysis_triggered is true exactly when the
\* invocation call succeeded; a failed invocation after a successful persist
\* returns success with analysis_triggered false and keeps the record, and a
\* failed persist returns an error with no invocation attempted.
C22_ExtractorStatus ==
    \A i \in Invocations :
        (Handler \in TwoStage /\ Ended(i) /\ ~Malformed(event[i])) =>
            /\ (ret[i].outcome = "returned" /\ ret[i].value.status = "success")
                    <=> Persisted(i)
            /\ (/\ ret[i].outcome = "returned"
                /\ "analysis_triggered" \in DOMAIN ret[i].value
                /\ ret[i].value.analysis_triggered) <=> Triggered(i)
            /\ (Persisted(i) /\ ~Triggered(i)) =>
                    /\ ret[i].outcome = "returned"
                    /\ ret[i].value.status = "success"
                    /\ ~ret[i].value.analysis_triggered
                    /\ \E it \in table : it.id = docId[i]
            /\ stage[i][1] = "Failed(Persisting)" =>
                    /\ ret[i].outcome = "returned"
                    /\ ret[i].value.status = "error"
                    /\ ~Triggered(i)

\* The names of the resources the cleanup script has deleted.
Deleted ==
    { calls[j].name : j \in { k \in DOMAIN calls :
        /\ calls[k].ok
        /\ calls[k].op \in {"delete_function", "delete_role", "delete_bucket",
                            "delete_topic", "delete_table"} } }

\* The resource is named after the base name and was created in the last 24 hours.
CreatedByProject(r) == Contains(r.name, BASE_NAME) /\ r.created <= CutoffHours

\* C23: the cleanup script deletes only resources whose name contains the base
\* name and that were created within the last 24 hours, and once it has printed
\* completion every such resource has been removed from the account.
C23_CleanupScope ==
    /\ \A n \in Deleted : CreatedByProject(ResourceNamed(n))
    /\ cleanup.pc = "complete" => \A r \in account : ~CreatedByProject(r)

\* What the resource of that name held, of these types, when the script started.
PartsOf(name, types) == { p \in ResourceNamed(name).parts : p.type \in types }

\* Before its j-th call the script made the call `op` on that part of the resource,
\* and the call succeeded.
DoneBefore(j, op, name, p) ==
    \E i \in 1..(j - 1) : calls[i] = Call(op, name, p, TRUE)

\* Before its j-th call the script made the call `op` on that part of the resource.
AttemptedBefore(j, op, name, p) ==
    \E i \in 1..(j - 1) : \E ok \in BOOLEAN : calls[i] = Call(op, name, p, ok)

\* The failures the script prints and passes over.
CaughtOps == {"unsubscribe", "delete_topic"}

====
